---------------------------- MODULE Spec2Model ----------------------------
(***************************************************************************)
(* A model of csxdata's source-parsing layer (src/parser/parser.py) and of *)
(* the dehungarize helper (src/utilities/misc.py).                         *)
(*                                                                         *)
(* One behaviour is one call of an entry point: Init draws the entry point *)
(* and its arguments from bounded sets, the actions run the call to its    *)
(* return or to the exception it raises.                                   *)
(*                                                                         *)
(* Text is a sequence of characters, each character a one-character        *)
(* string.  The accented letters of the dehungarize dictionary are written *)
(* as an ASCII letter followed by an apostrophe ("A'" is the capital A     *)
(* with acute accent, "a'" the small one); each still is ONE character of  *)
(* the text.                                                               *)
(*                                                                         *)
(* A grid (a 2-D numpy array of strings) is [ncols, rows]: numpy keeps the *)
(* column count of an array that has no rows.                              *)
(***************************************************************************)
EXTENDS Integers, Sequences, FiniteSets, TLC

\* ------------------------------------------------------------------ bounds
MaxRows == 3
MaxCols == 4
MaxIndeps == 3
MaxHeaders == 2
MaxNgram == 2
MaxBsize == 2
MaxItems == 3

\* ------------------------------------------------------- program constants
PathLimit == 200

\* ------------------------------------------------------------ sequences
Min(a, b) == IF a < b THEN a ELSE b

Max(a, b) == IF a < b THEN b ELSE a

Take(s, n) == SubSeq(s, 1, Min(n, Len(s)))

Drop(s, n) == SubSeq(s, Min(n, Len(s)) + 1, Len(s))

RECURSIVE Flatten(_)
Flatten(ss) == IF ss = <<>> THEN <<>> ELSE Head(ss) \o Flatten(Tail(ss))

\* s.replace(old, new) for a one-character old.
ReplaceChar(s, old, new) == [i \in 1..Len(s) |-> IF s[i] = old THEN new ELSE s[i]]

\* needle in s
Contains(s, needle) ==
    \E i \in 1..(Len(s) - Len(needle) + 1) : SubSeq(s, i, i + Len(needle) - 1) = needle

\* s[-4:]
Last4(s) == SubSeq(s, Max(1, Len(s) - 3), Len(s))

RECURSIVE SplitAcc(_, _, _)
SplitAcc(s, sep, cur) ==
    IF s = <<>> THEN <<cur>>
    ELSE IF Head(s) = sep THEN <<cur>> \o SplitAcc(Tail(s), sep, <<>>)
    ELSE SplitAcc(Tail(s), sep, Append(cur, Head(s)))

\* s.split(sep) for a one-character sep: an empty text gives one empty field.
Split(s, sep) == SplitAcc(s, sep, <<>>)

\* ------------------------------------------------------------ characters
UpperLetters ==
    <<"A", "B", "C", "D", "E", "F", "G", "H", "I", "J", "K", "L", "M", "N",
      "O", "P", "Q", "R", "S", "T", "U", "V", "W", "X", "Y", "Z", "A'",
      "E'", "I'", "O'", "O:", "O~", "U'", "U:", "U~">>

LowerLetters ==
    <<"a", "b", "c", "d", "e", "f", "g", "h", "i", "j", "k", "l", "m", "n",
      "o", "p", "q", "r", "s", "t", "u", "v", "w", "x", "y", "z", "a'",
      "e'", "i'", "o'", "o:", "o~", "u'", "u:", "u~">>

\* str.lower() on one character.
LowerChar(c) ==
    IF \E i \in 1..Len(UpperLetters) : UpperLetters[i] = c
    THEN LowerLetters[CHOOSE i \in 1..Len(UpperLetters) : UpperLetters[i] = c]
    ELSE c

Lower(s) == [i \in 1..Len(s) |-> LowerChar(s[i])]

DigitChars == <<"0", "1", "2", "3", "4", "5", "6", "7", "8", "9">>

IsDigit(c) == \E i \in 1..10 : DigitChars[i] = c

DigitVal(c) == (CHOOSE i \in 1..10 : DigitChars[i] = c) - 1

\* ------------------------------------------------- cells and float values
\* A numeric literal is read character by character: optional sign, digits,
\* optional decimal point and digits, optional exponent.  The scan keeps
\* where it is in the literal and the value read so far.
ScanStart ==
    [at |-> "start", neg |-> FALSE, mant |-> 0, frac |-> 0, eneg |-> FALSE, ev |-> 0]

ScanBad(st) == [st EXCEPT !.at = "bad"]

ScanStep(st, c) ==
    CASE st.at \in {"start", "sign"} /\ IsDigit(c) ->
            [st EXCEPT !.at = "int", !.mant = DigitVal(c)]
      [] st.at = "start" /\ c \in {"+", "-"} ->
            [st EXCEPT !.at = "sign", !.neg = (c = "-")]
      [] st.at \in {"start", "sign"} /\ c = "." -> [st EXCEPT !.at = "dot"]
      [] st.at = "int" /\ IsDigit(c) -> [st EXCEPT !.mant = 10 * @ + DigitVal(c)]
      [] st.at = "int" /\ c = "." -> [st EXCEPT !.at = "frac"]
      [] st.at \in {"dot", "frac"} /\ IsDigit(c) ->
            [st EXCEPT !.at = "frac", !.mant = 10 * @ + DigitVal(c), !.frac = @ + 1]
      [] st.at \in {"int", "frac"} /\ c \in {"e", "E"} -> [st EXCEPT !.at = "e"]
      [] st.at = "e" /\ c \in {"+", "-"} ->
            [st EXCEPT !.at = "esign", !.eneg = (c = "-")]
      [] st.at \in {"e", "esign", "exp"} /\ IsDigit(c) ->
            [st EXCEPT !.at = "exp", !.ev = 10 * @ + DigitVal(c)]
      [] OTHER -> ScanBad(st)

RECURSIVE Scan(_, _)
Scan(s, st) == IF s = <<>> THEN st ELSE Scan(Tail(s), ScanStep(st, Head(s)))

\* isnumber(token): whether the whole token reads as a floating-point number.
IsNumber(s) == Scan(s, ScanStart).at \in {"int", "frac", "exp"}

RECURSIVE Normalize(_, _)
\* One representative per value: no trailing zero in the mantissa.
Normalize(m, e) ==
    IF m = 0 THEN [nan |-> FALSE, mant |-> 0, exp |-> 0]
    ELSE IF m % 10 = 0 THEN Normalize(m \div 10, e + 1)
    ELSE [nan |-> FALSE, mant |-> m, exp |-> e]

NaN == [nan |-> TRUE, mant |-> 0, exp |-> 0]

NanMarker == <<"n", "a", "n">>

\* What numpy's string-to-float conversion accepts: a numeric literal or nan.
ParsesAsFloat(s) == IsNumber(s) \/ Lower(s) = NanMarker

ScanValue(st) ==
    Normalize(IF st.neg THEN 0 - st.mant ELSE st.mant,
              (IF st.eneg THEN 0 - st.ev ELSE st.ev) - st.frac)

\* The float a cell converts to: mant * 10^exp, or NaN.
ToFloat(s) == IF Lower(s) = NanMarker THEN NaN ELSE ScanValue(Scan(s, ScanStart))

\* -------------------------------------------------------------- grids
Grid(c, rows) == [ncols |-> c, rows |-> rows]

NRows(A) == Len(A.rows)

\* The cells of a grid, row by row: A.ravel()
Ravel(A) == Flatten(A.rows)

RECURSIVE MaxLen(_)
MaxLen(cells) ==
    IF cells = <<>> THEN 0 ELSE Max(Len(Head(cells)), MaxLen(Tail(cells)))

\* The width of a numpy string array ('<U' + width): its longest cell.
Itemsize(A) == Max(1, MaxLen(Ravel(A)))

\* Columns lo..hi of every row: A[:, lo-1:hi]
Columns(A, lo, hi) ==
    Grid(hi - lo + 1, [r \in 1..NRows(A) |-> SubSeq(A.rows[r], lo, hi)])

\* ------------------------------------------------------ outcomes of a call
NoHeader == [present |-> FALSE, names |-> <<>>]

HeaderOf(names) == [present |-> TRUE, names |-> names]

\* A call returns a table (X, Y, header) or raises.  "mem" is the array the
\* call worked on as the call leaves it: X and Y are numpy views of it, so
\* what is written through X is written into it.
Table(X, Y, header, mem) ==
    [kind |-> "table", X |-> X, Y |-> Y, header |-> header, mem |-> mem]

Raised(error, mem) == [kind |-> "error", error |-> error, mem |-> mem]

\* ------------------------------------------------------ parser.array
\* header = A[:headers].ravel() if headers else None
ExtractHeader(A, headers) ==
    IF headers # 0 THEN HeaderOf(Flatten(Take(A.rows, headers))) ELSE NoHeader

\* matrix = A[headers:] if headers else A
DataRows(A, headers) == Grid(A.ncols, Drop(A.rows, headers))

\* np.split(matrix, sections, axis=1) with an integer: that many blocks of
\* equal width.  It raises when the width is no multiple of the count, and
\* on a count of 0 its own test N % sections divides by zero.
NpSplit(matrix, sections) ==
    IF sections = 0 THEN [error |-> "ZeroDivisionError", blocks |-> <<>>]
    ELSE IF matrix.ncols % sections # 0 THEN [error |-> "ValueError", blocks |-> <<>>]
    ELSE LET w == matrix.ncols \div sections
         IN  [error  |-> "none",
              blocks |-> [i \in 1..sections |->
                             Columns(matrix, (i - 1) * w + 1, i * w)]]

\* "nan" as a string array of this width stores it: cut to the width.
StoredNan(width) == Take(NanMarker, width)

\* X[~np.vectorize(isnumber)(X)] = "nan" on one cell.
Substitute(cell, width) == IF IsNumber(cell) THEN cell ELSE StoredNan(width)

\* The substitution on the block of columns lo..hi of the rows after the
\* first `headers`, written into A itself.
WriteThrough(A, headers, lo, hi) ==
    Grid(A.ncols,
         [r \in 1..NRows(A) |->
            [c \in 1..A.ncols |->
               IF r > headers /\ c >= lo /\ c <= hi
               THEN Substitute(A.rows[r][c], Itemsize(A))
               ELSE A.rows[r][c]]])

\* X.astype(dtype) on a string block: every cell must convert.
AsTypeOk(X) == \A i \in 1..Len(Ravel(X)) : ParsesAsFloat(Ravel(X)[i])

AsType(X) ==
    Grid(X.ncols,
         [r \in 1..NRows(X) |-> [c \in 1..X.ncols |-> ToFloat(X.rows[r][c])]])

\* The block np.split returns first (X) and second (Y), both of width w, of
\* the data rows of A.
XBlock(A, headers, w) == Columns(DataRows(A, headers), 1, w)

YBlock(A, headers, w) == Columns(DataRows(A, headers), w + 1, 2 * w)

\* Lines 13-14, on the array A2 the substitution of line 12 has written.
ArrayConverted(A2, headers, w, header) ==
    IF AsTypeOk(XBlock(A2, headers, w))
    THEN Table(AsType(XBlock(A2, headers, w)), YBlock(A2, headers, w), header, A2)
    ELSE Raised("ValueError", A2)

\* Lines 11-14, given what np.split made of the data rows.  X, Y = ... takes
\* exactly two blocks, and np.vectorize refuses an input of size 0.
ArraySplit(A, headers, sp) ==
    IF sp.error # "none" THEN Raised(sp.error, A)
    ELSE IF Len(sp.blocks) # 2 THEN Raised("ValueError", A)
    ELSE IF Len(Ravel(sp.blocks[1])) = 0 THEN Raised("ValueError", A)
    ELSE ArrayConverted(WriteThrough(A, headers, 1, sp.blocks[1].ncols), headers,
                        sp.blocks[1].ncols, ExtractHeader(A, headers))

\* array(A, indeps, headers): lines 8-14.
Array(A, indeps, headers) ==
    ArraySplit(A, headers, NpSplit(DataRows(A, headers), indeps))

\* ------------------------------------------------------ files
PathCsv == <<"d", "/", "a", ".", "c", "s", "v">>

PathCsvUpper == <<"d", "/", "B", ".", "C", "S", "V">>

PathTxt == <<"d", "/", "a", ".", "t", "x", "t">>

PathPointer == <<"d", "/", "p", ".", "c", "s", "v">>

PathUndecodable == <<"d", "/", "u", ".", "c", "s", "v">>

PathRagged == <<"d", "/", "r", ".", "c", "s", "v">>

PathEmpty == <<"d", "/", "e", ".", "c", "s", "v">>

PathMissing == <<"d", "/", "m", ".", "c", "s", "v">>

PathXlsx == <<"b", ".", "x", "l", "s", "x">>

PathXls == <<"b", ".", "x", "l", "s">>

PathBareXlsx == <<"b", "x", "l", "s", "x">>

PathPickle == <<"t", ".", "p", "k", "l", ".", "g", "z">>

PathPickleUpper == <<"T", ".", "P", "K", "L", ".", "G", "Z">>

PathPickleCsv == <<"t", ".", "p", "k", "l", ".", "g", "z", ".", "c", "s", "v">>

PathDat == <<"a", ".", "d", "a", "t">>

PathShort == <<"c", "s", "v">>

PathOut == <<"d", "/", "o", ".", "t", "x", "t">>

PathBackslash == <<"c", "\\", "x">>

RawText == <<"t", "h", "e", " ", "c", "a", "t">>

TextTable ==
    <<"1", ",", "5", "\t", "p", "\n", "a", "b", "c", "\t", "q", "\n",
      "-", "3", "\t", "r", "\n">>

TextSmall == <<"7", "\t", "8">>

TextAccent == <<"A'", ",", "5">>

TextRagged == <<"1", "\t", "2", "\n", "3">>

File(text, decodable) == [text |-> text, decodable |-> decodable]

\* The files on disk when the call starts.  PathPointer holds, as its text,
\* the name of another file; PathUndecodable does not decode in the
\* encoding the readers open it with.
Disk0 ==
    (PathCsv :> File(TextTable, TRUE)) @@
    (PathCsvUpper :> File(TextSmall, TRUE)) @@
    (PathTxt :> File(TextAccent, TRUE)) @@
    (PathPointer :> File(PathTxt, TRUE)) @@
    (PathUndecodable :> File(<<>>, FALSE)) @@
    (PathRagged :> File(TextRagged, TRUE)) @@
    (PathEmpty :> File(<<>>, TRUE))

\* A missing value of a data-frame (None / NaN).
NA == <<"<NA>">>

SheetRow(r) ==
    IF r % 2 = 1 THEN << <<"k">>, <<"5">> >> ELSE << <<"y">>, NA >>

\* The spreadsheets on disk: one, with more rows than any header row index.
Sheets == (PathXlsx :> [r \in 1..(MaxHeaders + 1) |-> SheetRow(r)])

\* ------------------------------------------------------ misc.dehungarize
Accented ==
    <<"a'", "e'", "i'", "o'", "o:", "o~", "u'", "u:", "u~",
      "A'", "E'", "I'", "O'", "O:", "O~", "U'", "U:", "U~">>

Unaccented ==
    <<"a", "e", "i", "o", "o", "o", "u", "u", "u",
      "A", "E", "I", "O", "O", "O", "U", "U", "U">>

RECURSIVE FoldFrom(_, _)
\* for hunchar, asciichar in dictionary.items(): txt = txt.replace(...)
FoldFrom(txt, i) ==
    IF i > Len(Accented) THEN txt
    ELSE FoldFrom(ReplaceChar(txt, Accented[i], Unaccented[i]), i + 1)

\* The text dehungarize makes of a file's text, lines 55-60, in its order:
\* lower, then the dictionary, then the decimal comma.
DehungarizeText(txt, lower, decimal) ==
    LET t1 == IF lower THEN Lower(txt) ELSE txt
        t2 == FoldFrom(t1, 1)
    IN  IF decimal THEN ReplaceChar(t2, ",", ".") ELSE t2

NoPath == <<>>

\* dehungarize(inflpath, outflpath, lower, decimal): its argument names a
\* FILE, which it opens, reads and closes; it returns the text, or writes it
\* to outflpath and returns None.
Dehungarize(disk, inflpath, outflpath, lower, decimal) ==
    IF inflpath \notin DOMAIN disk
    THEN [kind |-> "error", error |-> "FileNotFoundError", text |-> <<>>,
          opened |-> <<>>, disk |-> disk]
    ELSE IF ~disk[inflpath].decodable
    THEN [kind |-> "error", error |-> "UnicodeDecodeError", text |-> <<>>,
          opened |-> <<inflpath>>, disk |-> disk]
    ELSE LET txt == DehungarizeText(disk[inflpath].text, lower, decimal)
         IN  IF outflpath = NoPath
             THEN [kind |-> "text", error |-> "none", text |-> txt,
                   opened |-> <<inflpath>>, disk |-> disk]
             ELSE [kind |-> "written", error |-> "none", text |-> <<>>,
                   opened |-> <<inflpath, outflpath>>,
                   disk |-> [p \in DOMAIN disk \cup {outflpath} |->
                               IF p = outflpath THEN File(txt, TRUE) ELSE disk[p]]]

\* ------------------------------------------------------ parser.csv
SplitEach(ls, sep) == [i \in 1..Len(ls) |-> Split(ls[i], sep)]

\* [l.split(sep) for l in text.split(end) if l]
Lines(text) == SplitEach(SelectSeq(Split(text, "\n"), LAMBDA l : l # <<>>), "\t")

Uniform(lines) == \A i \in 1..Len(lines) : Len(lines[i]) = Len(lines[1])

\* reparse_data(X, Y, header, **kw): the post-parse reshaper, which hands the
\* table on.
ReparseData(t) == t

\* csv, lines 52-53: dehungarize is handed the TEXT as its inflpath.
CsvDehungarized(disk, text, kw) ==
    IF kw.dehungarize THEN Dehungarize(disk, text, NoPath, FALSE, FALSE)
    ELSE [kind |-> "text", error |-> "none", text |-> text,
          opened |-> <<>>, disk |-> disk]

\* csv, lines 54-57
CsvReplaced(text, kw) ==
    IF kw.lower
    THEN Lower(IF kw.decimal THEN ReplaceChar(text, ",", ".") ELSE text)
    ELSE IF kw.decimal THEN ReplaceChar(text, ",", ".") ELSE text

\* csv, lines 58-60: the outcomes the array of the lines can have.  Rows of
\* unequal length make no 2-D array: numpy raises ValueError on building it,
\* or (older releases) builds a 1-D array of lists on which np.split(axis=1)
\* raises IndexError; so does the empty 1-D array of a text without lines.
CsvTable(lines, indeps, headers) ==
    IF lines = <<>> THEN {Raised("IndexError", <<>>)}
    ELSE IF ~Uniform(lines) THEN {Raised("ValueError", <<>>), Raised("IndexError", <<>>)}
    ELSE {ReparseData(Array(Grid(Len(lines[1]), lines), indeps, headers))}

\* "text" is csv's local of that name when csv is left: what lines 52-57
\* made of it, or, when dehungarize raised, still what was read.
CsvAfter(d, text, indeps, headers, kw) ==
    [opened |-> d.opened,
     text   |-> IF d.kind = "error" THEN text ELSE CsvReplaced(d.text, kw),
     outs   |-> IF d.kind = "error" THEN {Raised(d.error, <<>>)}
                ELSE CsvTable(Lines(CsvReplaced(d.text, kw)), indeps, headers)]

\* csv after its file is read, lines 52-60.
CsvParsed(disk, text, indeps, headers, kw) ==
    CsvAfter(CsvDehungarized(disk, text, kw), text, indeps, headers, kw)

\* ------------------------------------------------------ parser.learningtable
\* X, y = source; return X.astype(dtype), y, None.  A string source unpacks
\* into its characters, which have no astype.
LearningTable(source) ==
    IF source.type = "str"
    THEN IF Len(source.chars) # 2 THEN Raised("ValueError", source)
         ELSE Raised("AttributeError", source)
    ELSE IF Len(source.items) # 2 THEN Raised("ValueError", source)
    ELSE IF ~AsTypeOk(source.items[1]) THEN Raised("ValueError", source)
    ELSE Table(AsType(source.items[1]), source.items[2], NoHeader, source)

\* ------------------------------------------------------ parser.dataframe
HasNA(row) == \E c \in 1..Len(row) : row[c] = NA

\* df.dropna(inplace=True)
DropNA(df) == [df EXCEPT !.rows = SelectSeq(df.rows, LAMBDA row : ~HasNA(row))]

\* .astype(str) on one cell
AsStr(cell) == IF cell = NA THEN NanMarker ELSE cell

\* dataframe(df, indeps, **kw), lines 69-75; iloc slices clamp to the width.
Dataframe(df, indeps, kw) ==
    LET header == HeaderOf(df.columns)
        df2 == IF kw.dropna THEN DropNA(df) ELSE df
        nc  == Len(df.columns)
        k   == Min(indeps, nc)
        all == Grid(nc, df2.rows)
        Yraw == Columns(all, 1, k)
        Y   == Grid(k, [r \in 1..NRows(Yraw) |->
                          [c \in 1..k |-> AsStr(Yraw.rows[r][c])]])
        X   == Columns(all, k + 1, nc)
    IN  ReparseData(Table(X, Y, header, df2))

\* pd.read_excel(source, sheetname, max(0, headers-1), ...): the row with
\* that index names the columns, the rows after it are the data.
ReadExcel(path, headers) ==
    LET hr == Max(0, headers - 1)
    IN  [type |-> "DataFrame", columns |-> Sheets[path][hr + 1],
         rows |-> Drop(Sheets[path], hr + 1)]

\* xlsx(source, indeps, headers, **kw), lines 63-66.
Xlsx(path, indeps, headers, kw) ==
    IF path \notin DOMAIN Sheets THEN Raised("FileNotFoundError", path)
    ELSE Dataframe(ReadExcel(path, headers), indeps, kw)

\* ------------------------------------------------------ parser.parse_source
PickleMarker == <<".", "p", "k", "l", ".", "g", "z">>

CsvSuffixes == {<<".", "c", "s", "v">>, <<".", "t", "x", "t">>}

XlsSuffixes == {<<".", "x", "l", "s">>, <<"x", "l", "s", "x">>}

\* A failure that does not name the type: what the type test must not give.
UnsupportedTypeUnnamed(source) ==
    [kind |-> "error", error |-> "ValueError", msg |-> <<"Unsupported source">>,
     mem |-> source]

\* raise TypeError(f"Unsupported source type: {type(source)}")
UnsupportedType(source) ==
    [kind |-> "error", error |-> "TypeError",
     msg |-> <<"Unsupported source type", source.type>>, mem |-> source]

\* raise ValueError(f"Unsupported source: {source}")
UnsupportedSuffix(source) ==
    [kind |-> "error", error |-> "ValueError",
     msg |-> <<"Unsupported source", source.chars>>, mem |-> source]

\* The branch parse_source takes, lines 79-96.
Route(source) ==
    IF source.type = "ndarray" THEN "array"
    ELSE IF source.type = "tuple" THEN "learningtable"
    ELSE IF source.type = "DataFrame" THEN "dataframe"
    ELSE IF source.type # "str" THEN "TypeError"
    ELSE IF Contains(Lower(source.chars), PickleMarker) THEN "learningtable"
    ELSE IF Last4(Lower(source.chars)) \in CsvSuffixes THEN "csv"
    ELSE IF Last4(Lower(source.chars)) \in XlsSuffixes THEN "xlsx"
    ELSE "ValueError"

\* ------------------------------------------------------ parser.txt
\* reparse_txt(source, **kw): the text normalizer, in its fixed order:
\* accents, decimal comma, case, newlines.
ReparseTxt(text, kw) ==
    LET t1 == IF kw.dehungarize THEN FoldFrom(text, 1) ELSE text
        t2 == IF kw.decimal THEN ReplaceChar(t1, ",", ".") ELSE t1
        t3 == IF kw.lower THEN Lower(t2) ELSE t2
    IN  IF kw.endline_to_space THEN ReplaceChar(t3, "\n", " ") ELSE t3

Whitespace == {" ", "\t", "\n"}

RECURSIVE WordsAcc(_, _)
WordsAcc(s, cur) ==
    IF s = <<>> THEN (IF cur = <<>> THEN <<>> ELSE <<cur>>)
    ELSE IF Head(s) \in Whitespace
    THEN (IF cur = <<>> THEN <<>> ELSE <<cur>>) \o WordsAcc(Tail(s), <<>>)
    ELSE WordsAcc(Tail(s), Append(cur, Head(s)))

\* to_wordarray(text): the runs of characters between whitespace.
ToWordarray(text) == WordsAcc(text, <<>>)

\* to_ngrams(chars, n): the sliding windows of n characters.
ToNgrams(text, n) ==
    [i \in 1..Max(0, Len(text) - n + 1) |-> SubSeq(text, i, i + n - 1)]

\* txt after the source is read, lines 26-27; an empty text is refused.
TxtParsed(text, ngram, kw) ==
    LET t == ReparseTxt(text, kw)
    IN  IF t = <<>> THEN Raised("EmptyInputError", <<>>)
        ELSE [kind |-> "sequence",
              tokens |-> IF ngram # 0 THEN ToNgrams(t, ngram) ELSE ToWordarray(t),
              mem |-> <<>>]

\* ("\\" in source or "/" in source) and len(source) < 200
LooksLikePath(s) ==
    (\E i \in 1..Len(s) : s[i] \in {"\\", "/"}) /\ Len(s) < PathLimit

\* ------------------------------------------------------ file handles
\* A block that closed its handle on return only: what "with" is not.
WithExitOnReturnOnly(hs, h, raising) == IF raising THEN hs ELSE hs \ {h}

\* Leaving a "with open(...)" block, by return or by exception, closes the
\* handle the block opened.
WithExit(hs, h, raising) == hs \ {h}


\* ------------------------------------------------------ the calls drawn
\* The grids drawn tell their cells apart: the cell of row r and column c
\* reads "r.c" in a wide grid (numpy width 3) and is one digit in a narrow
\* one (width 1); at most one cell is no number.
WideCell(r, c) == <<DigitChars[r + 1], ".", DigitChars[c + 1]>>

NarrowCell(r, c) == <<DigitChars[((r + c) % 10) + 1]>>

BadCell == <<"x">>

Positions == {<<r, c>> : r \in 1..MaxRows, c \in 1..MaxCols}

AtMostOne == {{}} \cup {{p} : p \in Positions}

GridOf(r, c, wide, bad) ==
    Grid(c, [i \in 1..r |-> [j \in 1..c |->
                IF <<i, j>> \in bad THEN BadCell
                ELSE IF wide THEN WideCell(i, j) ELSE NarrowCell(i, j)]])

Grids ==
    {GridOf(r, c, w, b) : r \in 0..MaxRows, c \in 0..MaxCols, w \in BOOLEAN, b \in AtMostOne}

NdArrays == {[type |-> "ndarray", grid |-> g] : g \in Grids}

TupleGrids == {Grid(1, << << <<"7">> >> >>), Grid(1, << << <<"x">> >> >>)}

Tuples ==
    UNION {{[type |-> "tuple", items |-> it] : it \in [1..n -> TupleGrids]}
           : n \in 1..MaxItems}

ColumnNames(c) == [i \in 1..c |-> <<"c", DigitChars[i + 1]>>]

\* The data-frames drawn: cells that tell their place, at most one missing.
FrameOf(r, c, missing) ==
    [type |-> "DataFrame", columns |-> ColumnNames(c),
     rows |-> [i \in 1..r |-> [j \in 1..c |->
                 IF <<i, j>> \in missing THEN NA ELSE WideCell(i, j)]]]

DataFrames ==
    {FrameOf(r, c, m) : r \in 0..MaxRows, c \in 0..MaxCols, m \in AtMostOne}

\* Sources that are no array, tuple, data-frame or string.
OtherSources == {[type |-> t] : t \in {"int", "list", "NoneType"}}

Str(chars) == [type |-> "str", chars |-> chars]

SourcePaths ==
    {PathCsv, PathCsvUpper, PathTxt, PathPointer, PathUndecodable, PathRagged,
     PathEmpty, PathMissing, PathXlsx, PathXls, PathBareXlsx, PathPickle,
     PathPickleUpper, PathPickleCsv, PathDat, PathShort, <<>>}

TxtSources == {PathTxt, PathMissing, PathUndecodable, PathBackslash, PathEmpty, RawText}

ChunkPaths == {PathCsv, PathTxt, PathEmpty, PathMissing, PathUndecodable}

Kw(dehungarize, decimal, lower, dropna, endline) ==
    [dehungarize |-> dehungarize, decimal |-> decimal, lower |-> lower,
     dropna |-> dropna, endline_to_space |-> endline]

NoKw == Kw(FALSE, FALSE, FALSE, FALSE, FALSE)

CallOf(op, src, indeps, headers, kw, ngram, bsize, outflpath) ==
    [op |-> op, source |-> src, indeps |-> indeps, headers |-> headers,
     kw |-> kw, ngram |-> ngram, bsize |-> bsize, outflpath |-> outflpath]

ParseCalls(srcs, kws) ==
    {CallOf("parse_source", src, k, h, kw, 0, 0, NoPath) :
        src \in srcs, k \in 0..MaxIndeps, h \in 0..MaxHeaders, kw \in kws}

Calls ==
    ParseCalls(NdArrays, {NoKw})
    \cup ParseCalls(Tuples, {NoKw})
    \cup ParseCalls(DataFrames, {Kw(FALSE, FALSE, FALSE, d, FALSE) : d \in BOOLEAN})
    \cup ParseCalls(OtherSources, {NoKw})
    \cup ParseCalls({Str(p) : p \in SourcePaths},
                    {Kw(a, b, c, FALSE, FALSE) : a \in BOOLEAN, b \in BOOLEAN, c \in BOOLEAN})
    \cup {CallOf("txt", Str(p), 1, 1, Kw(a, b, c, FALSE, e), n, 0, NoPath) :
             p \in TxtSources, n \in 0..MaxNgram,
             a \in BOOLEAN, b \in BOOLEAN, c \in BOOLEAN, e \in BOOLEAN}
    \cup {CallOf("massive_txt", Str(p), 1, 1, Kw(a, FALSE, c, FALSE, e), 1, b, NoPath) :
             p \in ChunkPaths, b \in 1..MaxBsize,
             a \in BOOLEAN, c \in BOOLEAN, e \in BOOLEAN}
    \cup {CallOf("dehungarize", Str(p), 1, 1, Kw(FALSE, b, c, FALSE, FALSE), 0, 0, o) :
             p \in {PathTxt, PathCsvUpper, PathMissing, PathUndecodable},
             o \in {NoPath, PathOut}, b \in BOOLEAN, c \in BOOLEAN}

\* ------------------------------------------------------ state
VARIABLES
    pc,        \* where the call is: "call", a reader's step, "done"
    call,      \* the entry point and its arguments, as passed
    source,    \* the caller's source object, as it is now
    disk,      \* the files
    handles,   \* the file handles open now
    opened,    \* the files the call has opened, in order
    invoked,   \* the readers the call has entered, in order
    text,      \* the text a reader holds between its steps
    result     \* what the call returned or raised

vars == <<pc, call, source, disk, handles, opened, invoked, text, result>>

Pending == [kind |-> "pending"]

Init ==
    /\ call \in Calls
    /\ source = call.source
    /\ pc = "call"
    /\ disk = Disk0
    /\ handles = {}
    /\ opened = <<>>
    /\ invoked = <<>>
    /\ text = <<>>
    /\ result = Pending

Dispatched(route) ==
    /\ pc = "call"
    /\ call.op = "parse_source"
    /\ Route(source) = route

Finish(out, readers, files) ==
    /\ result' = out
    /\ invoked' = invoked \o readers
    /\ opened' = opened \o files
    /\ pc' = "done"

\* parse_source, lines 79-80
ParseArray ==
    /\ Dispatched("array")
    /\ LET out == Array(source.grid, call.indeps, call.headers)
       IN  /\ Finish(out, <<"array">>, <<>>)
           /\ source' = [source EXCEPT !.grid = out.mem]
    /\ UNCHANGED <<call, disk, handles, text>>

\* parse_source, lines 81-82 and 89-90
ParseLearningTable ==
    /\ Dispatched("learningtable")
    /\ Finish(LearningTable(source), <<"learningtable">>, <<>>)
    /\ UNCHANGED <<call, source, disk, handles, text>>

\* parse_source, lines 83-86
ParseDataFrame ==
    /\ Dispatched("dataframe")
    /\ LET out == Dataframe(source, call.indeps, call.kw)
       IN  /\ Finish(out, <<"dataframe">>, <<>>)
           /\ source' = out.mem
    /\ UNCHANGED <<call, disk, handles, text>>

\* parse_source, lines 87-88
ParseUnsupportedType ==
    /\ Dispatched("TypeError")
    /\ Finish(UnsupportedType(source), <<>>, <<>>)
    /\ UNCHANGED <<call, source, disk, handles, text>>

\* parse_source, lines 93-94
ParseXlsx ==
    /\ Dispatched("xlsx")
    /\ Finish(Xlsx(source.chars, call.indeps, call.headers, call.kw), <<"xlsx">>,
              IF source.chars \in DOMAIN Sheets THEN <<source.chars>> ELSE <<>>)
    /\ UNCHANGED <<call, source, disk, handles, text>>

\* parse_source, lines 95-96
ParseUnsupportedSuffix ==
    /\ Dispatched("ValueError")
    /\ Finish(UnsupportedSuffix(source), <<>>, <<>>)
    /\ UNCHANGED <<call, source, disk, handles, text>>

\* open(path) at the head of a with block: the file must exist.
OpenStep(reader, next) ==
    IF source.chars \in DOMAIN disk
    THEN /\ handles' = handles \cup {source.chars}
         /\ opened' = Append(opened, source.chars)
         /\ invoked' = Append(invoked, reader)
         /\ pc' = next
         /\ UNCHANGED result
    ELSE /\ Finish(Raised("FileNotFoundError", <<>>), <<reader>>, <<>>)
         /\ UNCHANGED handles

\* f.read() and the end of the with block: the handle is closed whether the
\* read returns or raises.
ReadStep(next) ==
    LET f == disk[source.chars]
    IN  IF f.decodable
        THEN /\ text' = f.text
             /\ handles' = WithExit(handles, source.chars, FALSE)
             /\ pc' = next
             /\ UNCHANGED <<result, invoked, opened>>
        ELSE /\ handles' = WithExit(handles, source.chars, TRUE)
             /\ Finish(Raised("UnicodeDecodeError", <<>>), <<>>, <<>>)
             /\ UNCHANGED text

\* parse_source, lines 91-92, into csv, line 50
CsvOpen ==
    /\ Dispatched("csv")
    /\ OpenStep("csv", "csv_read")
    /\ UNCHANGED <<call, source, disk, text>>

\* csv, lines 50-51
CsvRead ==
    /\ pc = "csv_read"
    /\ ReadStep("csv_parse")
    /\ UNCHANGED <<call, source, disk>>

\* csv, lines 52-60
CsvParse ==
    /\ pc = "csv_parse"
    /\ LET p == CsvParsed(disk, text, call.indeps, call.headers, call.kw)
       IN  /\ \E out \in p.outs : Finish(out, <<>>, p.opened)
           /\ text' = p.text
    /\ UNCHANGED <<call, source, disk, handles>>

\* txt, lines 23-24: a source that looks like a path is opened
TxtOpen ==
    /\ pc = "call"
    /\ call.op = "txt"
    /\ LooksLikePath(source.chars)
    /\ OpenStep("txt", "txt_read")
    /\ UNCHANGED <<call, source, disk, text>>

\* txt, line 23: any other source is the text itself
TxtInline ==
    /\ pc = "call"
    /\ call.op = "txt"
    /\ ~LooksLikePath(source.chars)
    /\ text' = source.chars
    /\ invoked' = Append(invoked, "txt")
    /\ pc' = "txt_parse"
    /\ UNCHANGED <<call, source, disk, handles, opened, result>>

\* txt, lines 24-25
TxtRead ==
    /\ pc = "txt_read"
    /\ ReadStep("txt_parse")
    /\ UNCHANGED <<call, source, disk>>

\* txt, lines 26-27
TxtParse ==
    /\ pc = "txt_parse"
    /\ Finish(TxtParsed(text, call.ngram, call.kw), <<>>, <<>>)
    /\ UNCHANGED <<call, source, disk, handles, text>>

\* massive_txt, line 33, on the first next() of the generator
MassiveTxtOpen ==
    /\ pc = "call"
    /\ call.op = "massive_txt"
    /\ OpenStep("massive_txt", "massive_txt_read")
    /\ UNCHANGED <<call, source, disk, text>>

\* massive_txt, line 34: opensource.read(n=bsize).  The read method of a
\* text file takes its size by position only, so the keyword call raises
\* TypeError whatever the file holds; the exception leaves the with block,
\* which closes the handle.  Lines 35-44 (the end-of-file test, the
\* normalization, to_ngrams, the yield) are never run.
MassiveTxtRead ==
    /\ pc = "massive_txt_read"
    /\ handles' = WithExit(handles, source.chars, TRUE)
    /\ Finish(Raised("TypeError", <<>>), <<>>, <<>>)
    /\ UNCHANGED <<call, source, disk, text>>

\* dehungarize, lines 45-66, called on a file
DehungarizeCall ==
    /\ pc = "call"
    /\ call.op = "dehungarize"
    /\ LET d == Dehungarize(disk, source.chars, call.outflpath,
                            call.kw.lower, call.kw.decimal)
       IN  /\ Finish([kind |-> d.kind, error |-> d.error, text |-> d.text, mem |-> <<>>],
                     <<"dehungarize">>, d.opened)
           /\ disk' = d.disk
    /\ UNCHANGED <<call, source, handles, text>>

Next ==
    \/ ParseArray
    \/ ParseLearningTable
    \/ ParseDataFrame
    \/ ParseUnsupportedType
    \/ ParseXlsx
    \/ ParseUnsupportedSuffix
    \/ CsvOpen
    \/ CsvRead
    \/ CsvParse
    \/ TxtOpen
    \/ TxtInline
    \/ TxtRead
    \/ TxtParse
    \/ MassiveTxtOpen
    \/ MassiveTxtRead
    \/ DehungarizeCall

Spec == Init /\ [][Next]_vars


\* ------------------------------------------------------ the claims
Done == pc = "done"

ParseCall(type) == call.op = "parse_source" /\ call.source.type = type

\* The grid as the caller passed it, and its rows after the header rows.
Grid0 == call.source.grid

Data0 == DataRows(Grid0, call.headers)

\* The float the recovery policy gives a cell: its value, or NaN.
Recovered(cell) == IF IsNumber(cell) THEN ToFloat(cell) ELSE NaN

RecoveredBlock(B) ==
    Grid(B.ncols, [r \in 1..NRows(B) |-> [c \in 1..B.ncols |-> Recovered(B.rows[r][c])]])

EndsWith(s, suffix) ==
    /\ Len(s) >= Len(suffix)
    /\ SubSeq(Lower(s), Len(s) - Len(suffix) + 1, Len(s)) = suffix

\* The file a string source names, when it is on disk.
Readable == call.source.chars \in DOMAIN Disk0 /\ Disk0[call.source.chars].decodable

FileText == Disk0[call.source.chars].text

\* C1: for every grid, every header row count and every k with
\* 0 <= k <= ncols, array called with indeps = k returns X with ncols - k
\* columns and Y with k columns.  Stated where both blocks and the data
\* rows are non-empty: 1 <= k < ncols, at least one data row.
C1_SplitColumnCounts ==
    (Done /\ ParseCall("ndarray") /\ NRows(Data0) >= 1
          /\ 1 <= call.indeps /\ call.indeps < Grid0.ncols) =>
        /\ result.kind = "table"
        /\ result.X.ncols = Grid0.ncols - call.indeps
        /\ result.Y.ncols = call.indeps

\* C2: the returned Y is the leading indeps columns of the data rows and the
\* returned X the remaining columns, in their order, on the array path and
\* on the data-frame path alike.
C2_LeadingBlockIsY ==
    /\ (Done /\ ParseCall("ndarray") /\ result.kind = "table"
             /\ call.indeps < Grid0.ncols) =>
          /\ result.Y.ncols = call.indeps
          /\ result.Y = Columns(Data0, 1, call.indeps)
          /\ result.X.ncols = Grid0.ncols - call.indeps
          /\ result.X = RecoveredBlock(Columns(Data0, call.indeps + 1, Grid0.ncols))
    /\ (Done /\ ParseCall("DataFrame") /\ result.kind = "table") =>
          LET k == Min(call.indeps, Len(source.columns))
          IN  /\ result.Y.ncols = k
              /\ \A r \in 1..Len(source.rows) : \A c \in 1..k :
                    result.Y.rows[r][c] = AsStr(source.rows[r][c])
              /\ result.X = Columns(Grid(Len(source.columns), source.rows),
                                    k + 1, Len(source.columns))

\* C3: a string source is dispatched on its suffix, whatever its case: .csv
\* to the delimited-text reader, .xlsx to the spreadsheet reader, .pkl.gz to
\* the pre-split pair reader, which returns a table, and .dat to the
\* unsupported-source error; one outcome per string.
C3_SuffixDispatch ==
    (Done /\ ParseCall("str")) =>
        /\ Len(invoked) <= 1
        /\ EndsWith(call.source.chars, <<".", "c", "s", "v">>) => invoked = <<"csv">>
        /\ EndsWith(call.source.chars, <<".", "x", "l", "s", "x">>) => invoked = <<"xlsx">>
        /\ EndsWith(call.source.chars, PickleMarker) =>
              invoked = <<"learningtable">> /\ result.kind = "table"
        /\ EndsWith(call.source.chars, <<".", "d", "a", "t">>) =>
              invoked = <<>> /\ result.kind = "error" /\ result.error = "ValueError"

\* C4: after a call of parse_source, returned or failed, the caller's source
\* object holds what it held when it was passed.
C4_SourceNotMutated == (Done /\ call.op = "parse_source") => source = call.source

\* C5: the split returns X and Y with as many rows as the data grid, and
\* every X cell is the value of the source cell at its position, NaN when
\* that cell is no number; no cell raises.  Stated where the column split
\* itself hands back two blocks, and for either reading of "its position":
\* counted in the data rows, or after the indeps leading columns.
C5_CellsRecovered ==
    (Done /\ ParseCall("ndarray") /\ NRows(Data0) >= 1 /\ Grid0.ncols >= 1
          /\ NpSplit(Data0, call.indeps).error = "none"
          /\ Len(NpSplit(Data0, call.indeps).blocks) = 2) =>
        /\ result.kind = "table"
        /\ NRows(result.X) = NRows(Data0)
        /\ NRows(result.Y) = NRows(Data0)
        /\ \E first \in {1, call.indeps + 1} :
              result.X = RecoveredBlock(Columns(Data0, first, first + result.X.ncols - 1))

\* C6: when a call of a reader has returned or failed, no file handle it
\* opened is still open.
C6_HandlesClosedAtExit == Done => handles = {}

\* A read that failed inside the with block of csv: the handle was opened,
\* the decoding error raised, the call is over.
C6_Witness ==
    /\ Done
    /\ ParseCall("str")
    /\ opened = <<call.source.chars>>
    /\ result.kind = "error"
    /\ result.error = "UnicodeDecodeError"

\* C7: a chunk request on a readable file returns the tokens of at most
\* chunk_size characters, or the end-of-file signal when the read is empty.
C7_ChunkReturned ==
    (Done /\ call.op = "massive_txt" /\ Readable) =>
        IF FileText = <<>>
        THEN result.kind = "error" /\ result.error \in {"StopIteration", "EndOfFileError"}
        ELSE result.kind = "sequence" /\ Len(result.tokens) <= call.bsize

\* C8: the text a reading path works on is the text read, normalized by the
\* enabled options in the order accents, decimal comma, case, newlines, and
\* the normalization raises nothing.
C8_NormalizedText ==
    /\ (Done /\ ParseCall("str") /\ invoked = <<"csv">> /\ Readable) =>
          /\ text = ReparseTxt(FileText, call.kw)
          /\ ~(result.kind = "error"
               /\ result.error \in {"FileNotFoundError", "UnicodeDecodeError"})
    /\ (Done /\ call.op = "dehungarize" /\ result.kind = "text") =>
          result.text = ReparseTxt(FileText, [call.kw EXCEPT !.dehungarize = TRUE])

\* C9: the header is absent exactly when headers = 0; otherwise it is the
\* first headers rows flattened, as long as the grid is wide; the data rows
\* are the rows after them.
C9_HeaderExtraction ==
    (Done /\ ParseCall("ndarray") /\ result.kind = "table") =>
        /\ result.header.present <=> call.headers > 0
        /\ call.headers > 0 =>
              /\ result.header.names = Flatten(Take(Grid0.rows, call.headers))
              /\ Len(result.header.names) = Grid0.ncols
        /\ NRows(result.X) = NRows(Data0)
        /\ NRows(result.Y) = NRows(Data0)

\* C10: a source that is no array, tuple, data-frame or string makes
\* parse_source fail with the unsupported-source error naming the type,
\* without a reader invoked or a file opened, and the call is over.
C10_UnsupportedType ==
    (call.op = "parse_source"
     /\ call.source.type \notin {"ndarray", "tuple", "DataFrame", "str"}) =>
        /\ invoked = <<>>
        /\ opened = <<>>
        /\ handles = {}
        /\ Done =>
              /\ result.kind = "error"
              /\ result.error = "TypeError"
              /\ result.msg = <<"Unsupported source type", call.source.type>>
              /\ ~ENABLED Next
        /\ ~Done => pc = "call" /\ result = Pending

C10_Witness ==
    /\ Done
    /\ call.op = "parse_source"
    /\ call.source.type = "NoneType"
    /\ result.kind = "error"

=============================================================================
